---- MODULE Spec2Model ----
(***************************************************************************)
(* The three variants of the front panel of the MPD player                 *)
(* (mainprogram.py, mainprogram2.py, mainprogram3.py): button handlers,    *)
(* debounce, the main loops and the display, over one model of the MPD     *)
(* daemon.  Time is in milliseconds, track positions in seconds.           *)
(*                                                                         *)
(* mainprogram.py and mainprogram2.py register their handlers as GPIO      *)
(* falling-edge callbacks; mainprogram3.py polls the pins in its loop.     *)
(* A handler is one step: its backend calls in order, cut short where a    *)
(* call raises.                                                            *)
(***************************************************************************)
EXTENDS Integers, Sequences, FiniteSets, TLC

\* ------------------------------------------------------------- bounds
MaxTracks == 2        \* longest queue
TrackLen == 30        \* length of every track, seconds
StartTime == 4900     \* the clock when the loop starts (time.time() is far from 0)
TickMs == 100         \* granularity of the clock
MaxTicks == 2         \* the clock ticks this many times
SlowCall == 2100      \* a status() call that blocks this long (client timeout is 10 s)
LongStall == 30000    \* a loop iteration whose backend calls block this long in total

\* -------------------------------------------------- program constants
DEBOUNCE_MS1 == 200         \* mainprogram.py DEBOUNCE_MS
DEBOUNCE_MS2 == 300         \* mainprogram2.py DEBOUNCE_MS
LongPressMs == 2000         \* mainprogram.py handle_skip: "> 2" seconds
SeekStep == 15              \* seconds rewound or forwarded by one press
SleepMs == 100              \* mainprogram3.py run: time.sleep(0.1)
ConnCheckMs == 30000        \* mainprogram3.py run: "> 30" seconds
DisplayEverySec == 5        \* mainprogram3.py run: int(time.time()) % 5

\* playback is observed every third of a seek step
AdvanceStep == SeekStep \div 3

Progs == {"mp1", "mp2", "mp3"}
Buttons == {"play", "prev", "next"}
States == {"play", "pause", "stop"}

VARIABLES
  prog,                    \* which variant runs
  pc,                      \* position of the main loop
  cause,                   \* why the process ended: "none" while it runs
  now,                     \* time.time(), ms
  mpd,                     \* the daemon: state, song, playlistlength, elapsed
  conn,                    \* the client connection: "up" or "lost"
  reachable,               \* whether the daemon accepts connections
  frame,                   \* what the display shows
  last_press,              \* mainprogram.py ButtonHandler.last_press
  last,                    \* mainprogram2.py ButtonHandler.last
  last_play_pause_state,   \* mainprogram3.py, last sample of each pin
  last_prev_state,
  last_next_state,
  last_connection_check,   \* mainprogram3.py run
  pin,                     \* mainprogram3.py: the level GPIO.input reads, per button
  down,                    \* history: buttons pressed and not sampled since, oldest first
  passed,                  \* history: buttons of down with a younger press handled
  cycle,                   \* history: the handler execution that just ended
  cmds,                    \* history: the commands that reached the daemon in it
  pending,                 \* the frame the main thread built from status() and
                           \* has not drawn yet (mainprogram.py, mainprogram2.py)
  lastcall,                \* RPi.GPIO: per pin, when its callback ran last (0: never)
  firstEdge,               \* history: the first raw edge on the watched button
  last_btn                 \* history: the button of the latest accepted press

vars == <<prog, pc, cause, now, mpd, conn, reachable, frame, last_press, last,
          last_play_pause_state, last_prev_state, last_next_state,
          last_connection_check, pin, down, passed, cycle, cmds, pending, lastcall, firstEdge,
          last_btn>>

Min(a, b) == IF a < b THEN a ELSE b

\* ------------------------------------------------------------ the daemon
Cmd(op, arg) == [op |-> op, arg |-> arg]

Queries == {"status", "currentsong", "ping"}

IsCommand(c) == c.op \notin Queries

\* 'time' of currentsong(): absent (read as 0) when there is no current song
Duration(m) == IF m.playlistlength = 0 THEN 0 ELSE TrackLen

Stopped(m) == [m EXCEPT !.state = "stop", !.song = 0, !.elapsed = 0]

\* the current song ends: the next one starts, or the queue is over
TrackEnd(m) ==
  IF m.song < m.playlistlength - 1
  THEN [m EXCEPT !.song = @ + 1, !.elapsed = 0]
  ELSE Stopped(m)

\* pause(1), pause(0), pause() (toggle, arg -1)
MpdPause(m, arg) ==
  IF arg = 1 THEN [m EXCEPT !.state = IF @ = "play" THEN "pause" ELSE @]
  ELSE IF arg = 0 THEN [m EXCEPT !.state = IF @ = "pause" THEN "play" ELSE @]
  ELSE [m EXCEPT !.state = IF @ = "play" THEN "pause"
                           ELSE IF @ = "pause" THEN "play" ELSE @]

MpdPlay(m) ==
  IF m.playlistlength = 0 THEN m ELSE [m EXCEPT !.state = "play"]

\* next and previous start playback of the song they move to, also from pause
\* (hence "Ensure it's paused" after them); they do nothing when stopped
MpdNext(m) ==
  IF m.state = "stop" THEN m
  ELSE IF m.song < m.playlistlength - 1
       THEN [m EXCEPT !.state = "play", !.song = @ + 1, !.elapsed = 0]
       ELSE Stopped(m)

MpdPrevious(m) ==
  IF m.state = "stop" THEN m
  ELSE [m EXCEPT !.state = "play",
                 !.song = IF @ > 0 THEN @ - 1 ELSE 0,
                 !.elapsed = 0]

MpdSeekcur(m, t) ==
  IF t >= Duration(m) THEN TrackEnd(m) ELSE [m EXCEPT !.elapsed = t]

\* the daemon answers a seek with an error when nothing is playing or paused
Rejects(m, c) == c.op = "seekcur" /\ m.state = "stop"

Apply(m, c) ==
  CASE c.op = "pause" -> MpdPause(m, c.arg)
    [] c.op = "play" -> MpdPlay(m)
    [] c.op = "next" -> MpdNext(m)
    [] c.op = "previous" -> MpdPrevious(m)
    [] c.op = "seekcur" -> MpdSeekcur(m, c.arg)
    [] OTHER -> m

\* The first n of the calls are made on a live connection: the daemon after
\* them, the calls that reached it, and whether one was answered with an error.
RECURSIVE Issue(_, _, _)
Issue(m, calls, n) ==
  IF n = 0 \/ calls = <<>>
  THEN [mpd |-> m, sent |-> <<>>, raised |-> FALSE]
  ELSE LET c == Head(calls) IN
       IF Rejects(m, c)
       THEN [mpd |-> m, sent |-> <<c>>, raised |-> TRUE]
       ELSE LET r == Issue(Apply(m, c), Tail(calls), n - 1)
            IN [r EXCEPT !.sent = <<c>> \o @]

\* ----------------------------------------------------------- the display
Frame(kind, ordinal, total, icon) ==
  [kind |-> kind, ordinal |-> ordinal, total |-> total, icon |-> icon]

Blank == Frame("blank", 0, 0, "none")
NoTracksFrame == Frame("notracks", 0, 0, "none")
ErrorFrame == Frame("error", 0, 0, "none")
NoPending == Frame("none", 0, 0, "none")

\* In the three operators below, shown is the number of the display update's
\* backend calls that succeeded, d whether the device takes the drawing.

\* mainprogram.py update_display and create_frame: a play icon, else a pause
\* icon; every exception is caught
UpdateDisplay1(m, shown, d) ==
  IF shown < 2 \/ ~d THEN frame
  ELSE Frame("track", m.song + 1, m.playlistlength,
             IF m.state = "play" THEN "play" ELSE "pause")

\* mainprogram2.py render: title, artist, icon and progress, no track ordinal
UpdateDisplay2(m, shown, d) ==
  IF shown < 2 \/ ~d THEN frame
  ELSE Frame("song", 0, 0, IF m.state = "play" THEN "play" ELSE "pause")

\* mainprogram3.py update_display: a failed status() draws the error frame, a
\* failed currentsong() only loses the title
UpdateDisplay3(m, shown, d) ==
  IF ~d THEN frame
  ELSE IF shown = 0 THEN ErrorFrame
  ELSE IF m.playlistlength = 0 THEN NoTracksFrame
  ELSE Frame("track", m.song + 1, m.playlistlength, m.state)

\* the display update drew the snapshot it fetched
Drawn(shown, d) == d /\ shown >= (IF prog = "mp3" THEN 1 ELSE 2)

\* the display update called the device and the device raised
DrawFailed(shown, d) == ~d /\ (prog = "mp3" \/ shown = 2)

\* ------------------------------------------------- one handler execution
StatusCall == <<Cmd("status", 0)>>
DisplayCalls == <<Cmd("status", 0), Cmd("currentsong", 0)>>

\* The handler makes the calls of pre, then those of disp (its display update);
\* the connection carries k more calls (none when it is already lost).
Run(pre, disp, k) ==
  LET r == Issue(mpd, pre \o disp, IF conn = "up" THEN k ELSE 0)
      made == Len(r.sent)
  IN [mpd |-> r.mpd,
      sent |-> r.sent,
      raised |-> r.raised,
      lost |-> ~r.raised /\ made < Len(pre) + Len(disp),
      bodyOk |-> ~r.raised /\ made >= Len(pre),
      disp |-> disp # <<>>,
      shown |-> made - Len(pre)]

\* how many of the calls succeed before the connection is lost: any number
Cuts(calls) == 0..Len(calls)

NoSnap == [state |-> "none", song |-> 0, playlistlength |-> 0, elapsed |-> 0]
\* n raw edges so far on the watched button; at and accepted are the first's,
\* kept until the second arrives
NoEdge == [n |-> 0, at |-> 0, accepted |-> FALSE]
PastEdges == [n |-> 2, at |-> 0, accepted |-> FALSE]
NoCycle ==
  [btn |-> "none", accepted |-> FALSE, before |-> NoSnap, fetched |-> FALSE,
   plan |-> <<>>, failed |-> FALSE, lost |-> FALSE, second |-> FALSE,
   prevEdge |-> NoEdge, prevBtn |-> "none", since |-> 0, at |-> 0,
   delivered |-> FALSE, calls |-> <<>>, rendered |-> FALSE,
   drawFailed |-> FALSE, overlap |-> FALSE, overtaken |-> FALSE]

\* the button whose first two raw edges are recorded
Watched == "next"

\* this raw edge is the second on the watched button
Second(btn) == btn = Watched /\ firstEdge.n = 1

\* time since the press the debounce accepted last
SinceAccepted == now - (IF prog = "mp2" THEN last ELSE last_press)

\* the calls that reached the daemon, by name
Names(calls) == [i \in 1..Len(calls) |-> calls[i].op]

\* the record of the execution of btn's handler that ends in this step; d is
\* the device's answer to its display update
Cycle(btn, plan, o, d) ==
  [btn |-> btn, accepted |-> TRUE, before |-> mpd,
   fetched |-> Len(o.sent) >= 1 /\ o.sent[1].op = "status",
   plan |-> SelectSeq(plan, IsCommand), failed |-> o.lost \/ o.raised,
   lost |-> o.lost, second |-> Second(btn), prevEdge |-> firstEdge,
   prevBtn |-> last_btn, since |-> SinceAccepted, at |-> now,
   delivered |-> TRUE, calls |-> Names(o.sent),
   rendered |-> o.bodyOk /\ o.disp /\ Drawn(o.shown, d),
   drawFailed |-> o.bodyOk /\ o.disp /\ DrawFailed(o.shown, d),
   overlap |-> pc = "updating" /\ o.sent # <<>>,
   overtaken |-> btn \in passed /\ SelectSeq(o.sent, IsCommand) # <<>>]

\* the record of a cycle of the loop's timer: the periodic display update
TickCycle(o, d) ==
  [NoCycle EXCEPT !.btn = "tick", !.before = mpd,
                  !.fetched = Len(o.sent) >= 1 /\ o.sent[1].op = "status",
                  !.failed = o.lost \/ o.raised, !.lost = o.lost, !.at = now,
                  !.calls = Names(o.sent),
                  !.rendered = o.bodyOk /\ o.disp /\ Drawn(o.shown, d),
                  !.drawFailed = o.bodyOk /\ o.disp /\ DrawFailed(o.shown, d)]

\* the record of a raw edge that runs no handler body; delivered tells whether
\* the callback was entered
DroppedCycle(btn, delivered) ==
  [NoCycle EXCEPT !.btn = btn, !.before = mpd, !.second = Second(btn),
                  !.prevEdge = firstEdge, !.prevBtn = last_btn,
                  !.since = SinceAccepted, !.at = now,
                  !.delivered = delivered]

pinvars == <<pin, down, passed>>
mp3vars == <<last_play_pause_state, last_prev_state, last_next_state,
             last_connection_check, pinvars>>
loopvars == <<pc, cause, pending>>
edgevars == <<lastcall, firstEdge, last_btn>>

\* The record of a cycle is read in the state that ends the cycle and dropped
\* in the next step, before anything else happens.
Settled == cycle = NoCycle

\* the effect of a handler execution on the daemon, the connection and the history
Handled(btn, plan, o, d) ==
  /\ mpd' = o.mpd
  /\ conn' = IF o.lost THEN "lost" ELSE conn
  /\ cycle' = Cycle(btn, plan, o, d)
  /\ cmds' = SelectSeq(o.sent, IsCommand)

\* add_event_detect(pin, FALLING, callback, bouncetime=DEBOUNCE_MS)
Bouncetime == IF prog = "mp2" THEN DEBOUNCE_MS2 ELSE DEBOUNCE_MS1

\* RPi.GPIO runs the callback of a pin when it never ran, or ran more than
\* bouncetime ago; it swallows the edge otherwise
Swallows(btn) == lastcall[btn] # 0 /\ now - lastcall[btn] <= Bouncetime

\* a raw edge: swallowed, or delivered to the callback and there accepted or
\* dropped by the debounce
EdgeSeen(btn, delivered, accepted) ==
  /\ lastcall' = IF delivered THEN [lastcall EXCEPT ![btn] = now] ELSE lastcall
  /\ firstEdge' = IF btn # Watched THEN firstEdge
                  ELSE IF firstEdge.n = 0
                       THEN [n |-> 1, at |-> now, accepted |-> accepted]
                       ELSE PastEdges
  /\ last_btn' = IF accepted THEN btn ELSE last_btn

\* an edge that runs no handler body: swallowed by RPi.GPIO, or the debounce
\* makes the handler return at once
Dropped(btn, delivered) ==
  /\ cycle' = DroppedCycle(btn, delivered)
  /\ cmds' = <<>>
  /\ EdgeSeen(btn, delivered, FALSE)
  /\ UNCHANGED <<mpd, conn, frame, now, last_press, last>>

\* ------------------------------------------------------- mainprogram.py
\* _debounce: TRUE when the edge is to be ignored
Debounce1 == now - last_press < DEBOUNCE_MS1

PlayPauseCalls1(st) ==
  IF st.state = "play" THEN <<Cmd("pause", 1)>> ELSE <<Cmd("play", 0)>>

\* the calls of handle_skip after status(); long is its "long press" test
SkipCalls1(st, long) ==
  IF long
  THEN <<Cmd("currentsong", 0)>> \o
       (IF Duration(st) > 0
        THEN <<Cmd("seekcur", Min(st.elapsed + SeekStep, Duration(st)))>>
        ELSE <<>>)
  ELSE IF st.song < st.playlistlength - 1 THEN <<Cmd("next", 0)>> ELSE <<>>

\* the callbacks run in RPi.GPIO's thread, also while the main thread is inside
\* its display update
InLoop == pc \in {"loop", "updating"}

handle_playpause ==
  /\ Settled /\ prog = "mp1" /\ InLoop
  /\ IF Swallows("play") \/ Debounce1 THEN Dropped("play", ~Swallows("play"))
     ELSE \E k \in Cuts(StatusCall \o PlayPauseCalls1(mpd) \o DisplayCalls) :
          \E d \in BOOLEAN :
       LET plan == PlayPauseCalls1(mpd)
           o == Run(StatusCall \o plan, DisplayCalls, k)
       IN /\ last_press' = now
          /\ Handled("play", plan, o, d)
          /\ frame' = IF o.bodyOk THEN UpdateDisplay1(o.mpd, o.shown, d)
                      ELSE frame
          /\ EdgeSeen("play", TRUE, TRUE)
          /\ UNCHANGED <<now, last>>
  /\ UNCHANGED <<prog, loopvars, reachable, mp3vars>>

\* status() returns after lat ms; "time.time() - self.last_press" is then lat,
\* last_press having just been set by _debounce
handle_skip(btn) ==
  /\ Settled /\ prog = "mp1" /\ InLoop
  /\ IF Swallows(btn) \/ Debounce1 THEN Dropped(btn, ~Swallows(btn))
     ELSE \E lat \in {0} \cup (IF now <= StartTime + MaxTicks * TickMs
                               THEN {SlowCall} ELSE {}) :
          \E k \in Cuts(StatusCall \o SkipCalls1(mpd, lat > LongPressMs)
                         \o DisplayCalls) :
          \E d \in BOOLEAN :
       LET plan == SkipCalls1(mpd, lat > LongPressMs)
           o == Run(StatusCall \o plan, DisplayCalls, k)
       IN /\ last_press' = now
          /\ now' = now + lat
          /\ Handled(btn, plan, o, d)
          /\ frame' = IF o.bodyOk THEN UpdateDisplay1(o.mpd, o.shown, d)
                      ELSE frame
          /\ EdgeSeen(btn, TRUE, TRUE)
          /\ UNCHANGED last
  /\ UNCHANGED <<prog, loopvars, reachable, mp3vars>>

\* The display update of the main thread, in two steps with the callbacks'
\* thread running in between: status() and the frame built from it, then
\* currentsong() and the drawing.

\* the record of the timer cycle that ends with status() failing
StatusFailed(o) == TickCycle(o, TRUE)

\* the record of the timer cycle that ends after currentsong() and the drawing
Rendered(o, d) ==
  [NoCycle EXCEPT !.btn = "tick", !.before = mpd, !.fetched = TRUE,
                  !.failed = o.lost, !.lost = o.lost, !.at = now,
                  !.calls = <<"status">> \o Names(o.sent),
                  !.rendered = o.shown = 1 /\ d,
                  !.drawFailed = o.shown = 1 /\ ~d]

SongCall == <<Cmd("currentsong", 0)>>

\* main, mainprogram.py: handler.update_display() up to status(); the except
\* clause of update_display ends the cycle when the call raises
main_status1 ==
  /\ Settled /\ prog = "mp1" /\ pc = "loop"
  /\ \E k \in Cuts(StatusCall) :
       LET o == Run(StatusCall, <<>>, k)
       IN /\ conn' = IF o.lost THEN "lost" ELSE conn
          /\ IF o.bodyOk
             THEN /\ pc' = "updating"
                  /\ pending' = UpdateDisplay1(mpd, 2, TRUE)
                  /\ cycle' = NoCycle
             ELSE /\ cycle' = StatusFailed(o)
                  /\ UNCHANGED <<pc, pending>>
          /\ cmds' = SelectSeq(o.sent, IsCommand)
  /\ UNCHANGED <<prog, cause, now, mpd, reachable, frame, last_press, last,
                 mp3vars, edgevars>>

\* the rest of update_display, then sleep(0.5)
main_render1 ==
  /\ Settled /\ prog = "mp1" /\ pc = "updating"
  /\ \E k \in Cuts(SongCall) : \E d \in BOOLEAN :
       LET o == Run(<<>>, SongCall, k)
       IN /\ conn' = IF o.lost THEN "lost" ELSE conn
          /\ frame' = IF o.shown = 1 /\ d THEN pending ELSE frame
          /\ cycle' = Rendered(o, d)
          /\ cmds' = SelectSeq(o.sent, IsCommand)
  /\ pc' = "loop" /\ pending' = NoPending
  /\ UNCHANGED <<prog, cause, now, mpd, reachable, last_press, last, mp3vars,
                 edgevars>>

main_loop1 == main_status1 \/ main_render1

\* ------------------------------------------------------ mainprogram2.py
Debounce2 == now - last < DEBOUNCE_MS2

PlayCalls2(st) ==
  IF st = "play" THEN <<Cmd("pause", -1)>> ELSE <<Cmd("play", 0)>>

\* a handler of mainprogram2.py: no try, the exception ends the callback (and
\* is printed by RPi.GPIO's thread)
Callback2(btn, pre, plan) ==
  /\ Settled /\ prog = "mp2" /\ InLoop
  /\ IF Swallows(btn) \/ Debounce2 THEN Dropped(btn, ~Swallows(btn))
     ELSE \E k \in Cuts(pre \o plan \o DisplayCalls) : \E d \in BOOLEAN :
       LET o == Run(pre \o plan, DisplayCalls, k)
       IN /\ last' = now
          /\ Handled(btn, plan, o, d)
          /\ frame' = IF o.bodyOk THEN UpdateDisplay2(o.mpd, o.shown, d)
                      ELSE frame
          /\ EdgeSeen(btn, TRUE, TRUE)
          /\ UNCHANGED <<now, last_press>>
  /\ UNCHANGED <<prog, loopvars, reachable, mp3vars>>

on_play == Callback2("play", StatusCall, PlayCalls2(mpd.state))

on_next == Callback2("next", <<>>, <<Cmd("next", 0)>>)

on_prev == Callback2("prev", <<>>, <<Cmd("previous", 0)>>)

\* main, mainprogram2.py: handler.update() up to status(); no except clause
\* stands between an exception of update() and the end of the process
main_status2 ==
  /\ Settled /\ prog = "mp2" /\ pc = "loop"
  /\ \E k \in Cuts(StatusCall) :
       LET o == Run(StatusCall, <<>>, k)
       IN /\ conn' = IF o.lost THEN "lost" ELSE conn
          /\ IF o.bodyOk
             THEN /\ pc' = "updating"
                  /\ pending' = UpdateDisplay2(mpd, 2, TRUE)
                  /\ cycle' = NoCycle
                  /\ UNCHANGED cause
             ELSE /\ pc' = "exited" /\ cause' = "backend"
                  /\ cycle' = StatusFailed(o)
                  /\ UNCHANGED pending
          /\ cmds' = SelectSeq(o.sent, IsCommand)
  /\ UNCHANGED <<prog, now, mpd, reachable, frame, last_press, last, mp3vars,
                 edgevars>>

\* the rest of update(): current_song() and render(), then
\* sleep(UPDATE_INTERVAL)
main_render2 ==
  /\ Settled /\ prog = "mp2" /\ pc = "updating"
  /\ \E k \in Cuts(SongCall) : \E d \in BOOLEAN :
       LET o == Run(<<>>, SongCall, k)
       IN /\ conn' = IF o.lost THEN "lost" ELSE conn
          /\ frame' = IF o.shown = 1 /\ d THEN pending ELSE frame
          /\ cycle' = Rendered(o, d)
          /\ cmds' = SelectSeq(o.sent, IsCommand)
          /\ pc' = IF o.lost \/ ~d THEN "exited" ELSE "loop"
          /\ cause' = IF o.lost THEN "backend"
                      ELSE IF ~d THEN "display" ELSE cause
  /\ pending' = NoPending
  /\ UNCHANGED <<prog, now, mpd, reachable, last_press, last, mp3vars, edgevars>>

main_loop2 == main_status2 \/ main_render2

\* ------------------------------------------------------ mainprogram3.py
PlayPauseCalls3_Swapped(st) ==
  IF st.state = "play" THEN <<Cmd("pause", 0)>> ELSE <<Cmd("pause", 1)>>

PlayPauseCalls3(st) ==
  IF st.state = "play" THEN <<Cmd("pause", 1)>> ELSE <<Cmd("pause", 0)>>

PrevCalls3_NoClamp(st) ==
  IF st.state = "play"
  THEN <<Cmd("seekcur", st.elapsed - SeekStep)>>
  ELSE IF st.song > 0
       THEN <<Cmd("previous", 0), Cmd("pause", 1)>>
       ELSE <<>>

PrevCalls3(st) ==
  IF st.state = "play"
  THEN IF st.elapsed > SeekStep
       THEN <<Cmd("seekcur", st.elapsed - SeekStep)>>
       ELSE <<Cmd("seekcur", 0)>>
  ELSE IF st.song > 0
       THEN <<Cmd("previous", 0), Cmd("pause", 1)>>
       ELSE <<>>

NextCalls3(st) ==
  IF st.state = "play"
  THEN <<Cmd("seekcur", st.elapsed + SeekStep)>>
  ELSE IF st.song < st.playlistlength - 1
       THEN <<Cmd("next", 0), Cmd("pause", 1)>>
       ELSE <<>>

\* a handler of mainprogram3.py: status(), return on an empty queue, else the
\* calls of plan and update_display(), all inside try
Handler3(btn, plan) ==
  \E k \in Cuts(StatusCall \o plan \o DisplayCalls) : \E d \in BOOLEAN :
    LET empty == mpd.playlistlength = 0
        calls == IF empty THEN <<>> ELSE plan
        o == Run(StatusCall \o calls, IF empty THEN <<>> ELSE DisplayCalls, k)
    IN /\ Handled(btn, calls, o, d)
       /\ frame' = IF o.bodyOk /\ ~empty
                   THEN UpdateDisplay3(o.mpd, o.shown, d) ELSE frame

handle_play_pause == Handler3("play", PlayPauseCalls3(mpd))

handle_prev == Handler3("prev", PrevCalls3(mpd))

handle_next == Handler3("next", NextCalls3(mpd))

\* the handler runs on a sample of 0 that follows a sample of 1 (not, as in
\* the first of the two, on every sample of 0)
Pressed_Level(current, lastSample) == current = 0

Pressed(current, lastSample) == current = 0 /\ lastSample = 1

Idle == /\ cycle' = NoCycle /\ cmds' = <<>>
        /\ UNCHANGED <<mpd, conn, frame>>

Without(seq, b) == SelectSeq(seq, LAMBDA x : x # b)

\* the buttons pressed before b and not sampled yet
Older(b) ==
  {down[i] : i \in {j \in 1..Len(down) : \E l \in j + 1..Len(down) : down[l] = b}}

\* the sample of b's pin is taken: its press is no longer waiting, and when its
\* handler sends a command the older presses still waiting have been passed
Sampled(b, handled) ==
  /\ down' = Without(down, b)
  /\ passed' = IF handled /\ cmds' # <<>>
               THEN (passed \ {b}) \cup Older(b) ELSE passed \ {b}

\* check_buttons, one button per step
check_play_pause ==
  /\ Settled /\ prog = "mp3" /\ pc = "check_play_pause"
  /\ LET current == pin["play"] IN
       /\ IF Pressed(current, last_play_pause_state)
          THEN handle_play_pause ELSE Idle
       /\ last_play_pause_state' = current
       /\ Sampled("play", Pressed(current, last_play_pause_state))
  /\ pc' = "check_prev"
  /\ UNCHANGED <<prog, cause, now, reachable, last_press, last, last_prev_state,
                 last_next_state, last_connection_check, pin, pending, edgevars>>

check_prev ==
  /\ Settled /\ prog = "mp3" /\ pc = "check_prev"
  /\ LET current == pin["prev"] IN
       /\ IF Pressed(current, last_prev_state) THEN handle_prev ELSE Idle
       /\ last_prev_state' = current
       /\ Sampled("prev", Pressed(current, last_prev_state))
  /\ pc' = "check_next"
  /\ UNCHANGED <<prog, cause, now, reachable, last_press, last,
                 last_play_pause_state, last_next_state, last_connection_check,
                 pin, pending, edgevars>>

check_next ==
  /\ Settled /\ prog = "mp3" /\ pc = "check_next"
  /\ LET current == pin["next"] IN
       /\ IF Pressed(current, last_next_state) THEN handle_next ELSE Idle
       /\ last_next_state' = current
       /\ Sampled("next", Pressed(current, last_next_state))
  /\ pc' = "check_connection"
  /\ UNCHANGED <<prog, cause, now, reachable, last_press, last,
                 last_play_pause_state, last_prev_state, last_connection_check,
                 pin, pending, edgevars>>

\* run: every 30 s check_mpd_connection: ping(), and on failure disconnect and
\* connect_mpd(), which ends the process when the daemon does not answer
check_mpd_connection ==
  /\ Settled /\ prog = "mp3" /\ pc = "check_connection"
  /\ IF now - last_connection_check > ConnCheckMs
     THEN /\ last_connection_check' = now
          /\ IF conn = "up"
             THEN UNCHANGED <<conn, frame, cause>> /\ pc' = "display"
             ELSE IF reachable
                  THEN /\ conn' = "up" /\ pc' = "display"
                       /\ UNCHANGED <<frame, cause>>
                  ELSE /\ pc' = "exited" /\ cause' = "backend"
                       /\ frame' = Blank
                       /\ UNCHANGED conn
     ELSE /\ pc' = "display"
          /\ UNCHANGED <<last_connection_check, conn, frame, cause>>
  /\ cycle' = NoCycle /\ cmds' = <<>>
  /\ UNCHANGED <<prog, now, mpd, reachable, last_press, last,
                 last_play_pause_state, last_prev_state, last_next_state,
                 pinvars, pending, edgevars>>

\* run: status(), and while playing on every fifth second update_display()
periodic_display ==
  /\ Settled /\ prog = "mp3" /\ pc = "display"
  /\ \E k \in Cuts(StatusCall \o DisplayCalls) : \E d \in BOOLEAN :
       LET due == mpd.state = "play" /\ (now \div 1000) % DisplayEverySec = 0
           o == Run(StatusCall, IF due THEN DisplayCalls ELSE <<>>, k)
       IN /\ frame' = IF o.bodyOk /\ due
                      THEN UpdateDisplay3(o.mpd, o.shown, d) ELSE frame
          /\ conn' = IF o.lost THEN "lost" ELSE conn
          /\ cycle' = TickCycle(o, d)
          /\ cmds' = SelectSeq(o.sent, IsCommand)
  /\ pc' = "sleep"
  /\ UNCHANGED <<prog, cause, now, mpd, reachable, last_press, last, mp3vars,
                 pending, edgevars>>

\* run: time.sleep(0.1); the iteration also took the time its calls blocked
sleep ==
  /\ Settled /\ prog = "mp3" /\ pc = "sleep"
  /\ now < StartTime + MaxTicks * TickMs
  /\ \E stall \in {0, LongStall} : now' = now + SleepMs + stall
  /\ pc' = "check_play_pause"
  /\ cycle' = NoCycle /\ cmds' = <<>>
  /\ UNCHANGED <<prog, cause, mpd, conn, reachable, frame, last_press, last,
                 mp3vars, pending, edgevars>>

\* A button of mainprogram3.py goes down (the pin reads 0) or up again.  The loop
\* reads each pin once per iteration, so a change between two reads has the
\* effect of one in the sleep before them or in the sleep after them.
LastSample(b) ==
  IF b = "play" THEN last_play_pause_state
  ELSE IF b = "prev" THEN last_prev_state ELSE last_next_state

PinFalls(b) ==
  /\ Settled /\ prog = "mp3" /\ pc = "sleep" /\ pin[b] = 1
  /\ pin' = [pin EXCEPT ![b] = 0]
  /\ down' = IF LastSample(b) = 1 THEN Append(down, b) ELSE down
  /\ cycle' = NoCycle /\ cmds' = <<>>
  /\ UNCHANGED <<prog, pc, cause, now, mpd, conn, reachable, frame, last_press,
                 last, last_play_pause_state, last_prev_state, last_next_state,
                 last_connection_check, passed, pending, edgevars>>

PinRises(b) ==
  /\ Settled /\ prog = "mp3" /\ pc = "sleep" /\ pin[b] = 0
  /\ pin' = [pin EXCEPT ![b] = 1]
  /\ down' = Without(down, b)
  /\ passed' = passed \ {b}
  /\ cycle' = NoCycle /\ cmds' = <<>>
  /\ UNCHANGED <<prog, pc, cause, now, mpd, conn, reachable, frame, last_press,
                 last, last_play_pause_state, last_prev_state, last_next_state,
                 last_connection_check, pending, edgevars>>

\* ------------------------------------------------------ the environment
Running == pc # "exited"

\* time passes between two callbacks
Tick ==
  /\ Settled /\ prog # "mp3" /\ Running
  /\ now < StartTime + MaxTicks * TickMs
  /\ now' = now + TickMs
  /\ cycle' = NoCycle /\ cmds' = <<>>
  /\ UNCHANGED <<prog, cause, pc, mpd, conn, reachable, frame, last_press, last,
                 mp3vars, pending, edgevars>>

\* the daemon plays on: 'elapsed' grows and the track ends
Playback ==
  /\ Settled /\ Running /\ mpd.state = "play"
  /\ mpd' = IF mpd.elapsed + AdvanceStep >= Duration(mpd)
            THEN TrackEnd(mpd)
            ELSE [mpd EXCEPT !.elapsed = @ + AdvanceStep]
  /\ cycle' = NoCycle /\ cmds' = <<>>
  /\ UNCHANGED <<prog, cause, pc, now, conn, reachable, frame, last_press, last,
                 mp3vars, pending, edgevars>>

\* the queue is emptied in the daemon: 'playlistlength' reads 0
QueueCleared ==
  /\ Settled /\ Running /\ mpd.playlistlength > 0
  /\ mpd' = [state |-> "stop", song |-> 0, playlistlength |-> 0, elapsed |-> 0]
  /\ cycle' = NoCycle /\ cmds' = <<>>
  /\ UNCHANGED <<prog, cause, pc, now, conn, reachable, frame, last_press, last,
                 mp3vars, pending, edgevars>>

\* the connection breaks: every later call raises
ConnectionLost ==
  /\ Settled /\ Running /\ conn = "up"
  /\ conn' = "lost"
  /\ cycle' = NoCycle /\ cmds' = <<>>
  /\ UNCHANGED <<prog, cause, pc, now, mpd, reachable, frame, last_press, last,
                 mp3vars, pending, edgevars>>

\* the operator's Ctrl+C (KeyboardInterrupt in the main thread): GPIO.cleanup(),
\* close() and disconnect() (which raise on a connection already lost); only
\* mainprogram3.py goes on to device.clear()
Shutdown ==
  /\ Settled /\ Running
  /\ pc' = "exited" /\ cause' = "operator"
  /\ conn' = IF conn = "up" THEN "closed" ELSE conn
  /\ frame' = IF prog = "mp3" THEN Blank ELSE frame
  /\ cycle' = NoCycle /\ cmds' = <<>>
  /\ UNCHANGED <<prog, now, mpd, reachable, last_press, last, mp3vars, pending, edgevars>>

\* the daemon stops and starts; only mainprogram3.py ever connects again
DaemonDown ==
  /\ Settled /\ prog = "mp3" /\ Running /\ reachable
  /\ reachable' = FALSE /\ conn' = "lost"
  /\ cycle' = NoCycle /\ cmds' = <<>>
  /\ UNCHANGED <<prog, cause, pc, now, mpd, frame, last_press, last, mp3vars, pending, edgevars>>

DaemonUp ==
  /\ Settled /\ Running /\ ~reachable
  /\ reachable' = TRUE
  /\ cycle' = NoCycle /\ cmds' = <<>>
  /\ UNCHANGED <<prog, cause, pc, now, mpd, conn, frame, last_press, last, mp3vars,
                 pending, edgevars>>

\* ------------------------------------------------------------ the system
\* mainprogram.py and mainprogram2.py start with play(0), pause() on a queue
\* that is not empty (play(0) raises on an empty one and the process ends).
\* mainprogram3.py starts on any queue: stopped, or paused on the first track
\* when playid(0) names it, and has drawn its first frame.
InitQueue(p) ==
  IF p = "mp3"
  THEN {[state |-> s, song |-> 0, playlistlength |-> n, elapsed |-> 0] :
          s \in {"stop", "pause"}, n \in 1..MaxTracks}
       \cup {[state |-> "stop", song |-> 0, playlistlength |-> 0, elapsed |-> 0]}
  ELSE {[state |-> "pause", song |-> 0, playlistlength |-> n, elapsed |-> 0] :
          n \in 1..MaxTracks}

\* mainprogram3.py __init__ reads the pins before setup_playlist() and the first
\* update_display(), so a button may have gone down since when run() starts (one
\* that has gone up since is read as one that was up all along: check_buttons
\* acts only on a sample of 0 after a sample of 1)
LastSamples(p, level) == IF p = "mp3" THEN {1, level} ELSE {level}

InitFor(P) ==
  /\ prog \in P
  /\ pc = IF prog = "mp3" THEN "check_play_pause" ELSE "loop"
  /\ cause = "none"
  /\ now = StartTime
  /\ mpd \in InitQueue(prog)
  /\ conn = "up"
  /\ reachable = TRUE
  /\ frame = IF prog = "mp3" THEN UpdateDisplay3(mpd, 2, TRUE) ELSE Blank
  /\ last_press = IF prog = "mp1" THEN StartTime ELSE 0
  /\ last = 0
  /\ pin \in [Buttons -> IF prog = "mp3" THEN {0, 1} ELSE {1}]
  /\ last_play_pause_state \in LastSamples(prog, pin["play"])
  /\ last_prev_state \in LastSamples(prog, pin["prev"])
  /\ last_next_state \in LastSamples(prog, pin["next"])
  /\ down = <<>>
  /\ passed = {}
  /\ last_connection_check = StartTime
  /\ cycle = NoCycle
  /\ cmds = <<>>
  /\ pending = NoPending
  /\ lastcall = [b \in Buttons |-> 0]
  /\ firstEdge = NoEdge
  /\ last_btn = "none"

Init == InitFor(Progs)

\* the record of the cycle just ended is dropped; nothing of the program changes
Forget ==
  /\ ~Settled
  /\ cycle' = NoCycle /\ cmds' = <<>>
  /\ UNCHANGED <<prog, loopvars, now, mpd, conn, reachable, frame, last_press, last,
                 mp3vars, edgevars>>

Buttons3 ==
  \/ \E b \in Buttons : PinFalls(b)
  \/ \E b \in Buttons : PinRises(b)

Environment ==
  \/ Playback
  \/ QueueCleared
  \/ ConnectionLost

Daemon ==
  \/ DaemonDown
  \/ DaemonUp

Next1 ==
  \/ handle_playpause
  \/ \E btn \in {"prev", "next"} : handle_skip(btn)
  \/ main_loop1

Next2 ==
  \/ on_play
  \/ on_next
  \/ on_prev
  \/ main_loop2

Next3 ==
  \/ Buttons3
  \/ check_play_pause
  \/ check_prev
  \/ check_next
  \/ check_mpd_connection
  \/ periodic_display
  \/ sleep

Next == Next1 \/ Next2 \/ Next3 \/ Tick \/ Environment \/ Daemon \/ Shutdown \/ Forget

Spec == Init /\ [][Next]_vars

\* each variant alone
InitMP1 == InitFor({"mp1"})

NextMP1 == Next1 \/ Tick \/ Environment \/ Shutdown \/ Forget

SpecMP1 == InitMP1 /\ [][NextMP1]_vars

\* mainprogram.py with a main loop that keeps running and a history record that
\* is always dropped: the scheduling under which "eventually" is judged
FairMP1 == SpecMP1 /\ WF_vars(main_loop1) /\ WF_vars(Forget)

InitMP2 == InitFor({"mp2"})

NextMP2 == Next2 \/ Tick \/ Environment \/ Shutdown \/ Forget

SpecMP2 == InitMP2 /\ [][NextMP2]_vars

InitMP3 == InitFor({"mp3"})

NextMP3 == Next3 \/ Environment \/ Daemon \/ Shutdown \/ Forget

SpecMP3 == InitMP3 /\ [][NextMP3]_vars

\* ----------------------------------------------------------- properties
\* a press the debounce let through: its handler ran
HandledPress(b) == cycle.btn = b /\ cycle.accepted

TrackChanging == {"next", "previous"}
Playing(st) == st.state = "play"
NonEmpty(st) == st.playlistlength > 0

IsPause(c) == c.op = "pause" /\ c.arg \in {1, -1}
IsResume(c) == c.op = "play" \/ (c.op = "pause" /\ c.arg = 0)

Ops(calls) == {calls[i].op : i \in 1..Len(calls)}

\* C1: a press of any button handled on an empty queue sends no command
C1_EmptyQueueNoOp ==
  \A b \in Buttons :
    HandledPress(b) /\ cycle.before.playlistlength = 0 => cmds = <<>>

C4_NextWhilePlaying ==
  HandledPress("next") /\ cycle.fetched /\ NonEmpty(cycle.before)
    /\ Playing(cycle.before) =>
    LET e == cycle.before.elapsed
        d == Duration(cycle.before)
    IN ~cycle.failed =>
         IF d > 0 /\ d - e <= SeekStep
         THEN cmds = <<Cmd("next", 0)>>
         ELSE cmds = <<Cmd("seekcur", e + SeekStep)>>

C7_StaysNotPlaying ==
  \A b \in {"prev", "next"} :
    HandledPress(b) /\ ~Playing(cycle.before) => mpd.state # "play"

\* the debounce window of the running variant
Window == IF prog = "mp2" THEN DEBOUNCE_MS2 ELSE DEBOUNCE_MS1

Count(e) == IF e.accepted THEN 1 ELSE 0

C9_PerButton ==
  prog # "mp3" /\ cycle.btn # "none" /\ cycle.delivered
    /\ cycle.prevBtn \notin {"none", cycle.btn} /\ cycle.since < Window =>
    cycle.accepted

\* C10: when a call of a button cycle fails once on a lost connection and the
\* daemon can be reached again, the intended command reaches it exactly once
C10_RetryOnce ==
  \A b \in Buttons :
    HandledPress(b) /\ cycle.lost /\ reachable => cmds = cycle.plan

\* the process has ended
Terminated == pc = "exited"

\* C11: the process ends only by operator shutdown, never because a backend
\* call or a reconnect attempt failed
C11_OnlyShutdownTerminates == Terminated => cause = "operator"

\* C16: after operator shutdown no connection is left open and the display is
\* cleared
C16_Shutdown == Terminated /\ cause = "operator" => conn # "up" /\ frame = Blank

\* C12: a button cycle never runs while a timer cycle is between its status()
\* and its currentsong(): no call of a handler falls between these two
C12_NoOverlap ==
  \A b \in Buttons : HandledPress(b) => ~cycle.overlap

\* the presses the specification calls no-ops, on the snapshot st
NoOpCase(b, st) ==
  \/ st.playlistlength = 0
  \/ /\ ~Playing(st)
     /\ \/ b = "prev" /\ st.song = 0
        \/ b = "next" /\ st.song = st.playlistlength - 1

\* the frame the running variant draws of the snapshot st
ShownFor(st) ==
  IF prog = "mp1" THEN UpdateDisplay1(st, 2, TRUE)
  ELSE IF prog = "mp2" THEN UpdateDisplay2(st, 2, TRUE)
  ELSE UpdateDisplay3(st, 2, TRUE)

\* C13: a handled no-op press sends no command, leaves state and track as they
\* were, and the frame drawn afterwards shows the snapshot taken before it
C13_NoOp ==
  \A b \in Buttons :
    HandledPress(b) /\ NoOpCase(b, cycle.before) =>
      /\ cmds = <<>>
      /\ mpd.state = cycle.before.state /\ mpd.song = cycle.before.song
      /\ cycle.rendered => frame = ShownFor(cycle.before)

C15_TickRenders ==
  cycle.btn = "tick" =>
    /\ cmds = <<>>
    /\ ~cycle.failed /\ ~cycle.drawFailed => cycle.fetched /\ cycle.rendered

\* the position of the last command among the calls made (0: none)
LastCommand(calls) ==
  LET at == {i \in 1..Len(calls) : calls[i] \notin Queries}
  IN IF at = {} THEN 0 ELSE CHOOSE i \in at : \A j \in at : j <= i

C18_AtMostOne ==
  \A b \in Buttons : HandledPress(b) => Len(cmds) <= 1

\* C19: no command is sent for a press while a press made before it on another
\* button still waits; presses are served in the order they were made
C19_InOrder ==
  \A b \in Buttons : HandledPress(b) => ~cycle.overtaken

\* the targets of the seeks among calls
SeekTargets(calls) ==
  {calls[i].arg : i \in {j \in 1..Len(calls) : calls[j].op = "seekcur"}}

\* C20: a handled Previous press sends no next() and no seek forward, and the
\* track index does not grow; a handled Next press sends no previous() and no
\* seek backward
C20_Direction ==
  /\ HandledPress("prev") =>
       /\ "next" \notin Ops(cmds)
       /\ \A t \in SeekTargets(cmds) : t <= cycle.before.elapsed
       /\ mpd.song <= cycle.before.song
  /\ HandledPress("next") =>
       /\ "previous" \notin Ops(cmds)
       /\ \A t \in SeekTargets(cmds) : t >= cycle.before.elapsed

\* the commands of handle_skip's seek branch and of its next-track branch
SeekBranch(st) ==
  IF Duration(st) > 0
  THEN <<Cmd("seekcur", Min(st.elapsed + SeekStep, Duration(st)))>> ELSE <<>>

NextBranch(st) ==
  IF st.song < st.playlistlength - 1 THEN <<Cmd("next", 0)>> ELSE <<>>

\* C21: a press handled by handle_skip more than 2 s after the press accepted
\* before it takes the seek branch, and one handled within 2 s takes the
\* next-track branch
C21_LongPress ==
  \A b \in {"prev", "next"} :
    prog = "mp1" /\ HandledPress(b) /\ cycle.fetched =>
      cycle.plan = IF cycle.since > LongPressMs THEN SeekBranch(cycle.before)
                                                ELSE NextBranch(cycle.before)

\* C23: a frame that shows a track position shows an ordinal between 1 and the
\* track count, so none is shown for an empty queue
C23_Ordinal ==
  frame.kind = "track" => 1 <= frame.ordinal /\ frame.ordinal <= frame.total

\* where the loop of mainprogram3.py stands when it is about to sample b
PollAt(b) ==
  IF b = "play" THEN "check_play_pause"
  ELSE IF b = "prev" THEN "check_prev" ELSE "check_next"

\* the step in which check_buttons samples b's pin
Polls(b) == prog = "mp3" /\ pc = PollAt(b) /\ pc' \notin {pc, "exited"}

\* C22: in every step that samples a button, the handler of that button runs
\* exactly when the sample is 0 and the sample before it was 1 (so a button held
\* down runs it once), and the sample is stored whether or not the handler ran
\* or failed
C22_EdgeTriggered ==
  [][\A b \in Buttons :
       Polls(b) =>
         /\ LastSample(b)' = pin[b]
         /\ (cycle'.btn = b /\ cycle'.accepted)
              <=> (pin[b] = 0 /\ LastSample(b) = 1)
         /\ \A c \in Buttons \ {b} : LastSample(c)' = LastSample(c)]_vars

\* a handler has run on a press and failed, and the sample is stored all the same
C22_Witness ==
  /\ prog = "mp3" /\ pc = "check_prev"
  /\ HandledPress("play") /\ cycle.failed
  /\ pin["play"] = 0 /\ last_play_pause_state = 0

\* C24: when the connection is lost while the loop runs and the daemon can be
\* reached, the loop has a connection again at some later time, unless the
\* process has ended by then
C24_Reconnects ==
  (Running /\ conn = "lost" /\ reachable) ~> (conn = "up" \/ ~Running \/ ~reachable)

====
